---------------------------- MODULE Spec2Model ----------------------------
(***************************************************************************)
(* Model of solve_sde (src/solve_sde.py), the strong order 1.0 stochastic  *)
(* Runge-Kutta integrator of  dX = a(X,t)*dt + b(X,t)*dW.                  *)
(*                                                                         *)
(* Numbers.  A float is modelled as a pair <<num, den>>: an exact rational *)
(* in lowest terms when den > 0, and the three IEEE specials when den = 0  *)
(* (<<1,0>> = +inf, <<-1,0>> = -inf, <<0,0>> = nan).  Rounding and the     *)
(* sign of zero are not modelled; the specials follow the IEEE rules that  *)
(* numpy applies (0*inf = nan, inf-inf = nan, x/0 = +-inf, sqrt(-x) = nan).*)
(*                                                                         *)
(* Arrays.  A numpy value is a record [nd, v]: nd = 0 a scalar (v has one  *)
(* entry), nd = 1 a vector, nd = -1 an exception raised while computing    *)
(* it.  Binary operations broadcast as numpy does.                         *)
(***************************************************************************)
EXTENDS Integers, Sequences, FiniteSets, TLC

(* ------------------------------ bounds -------------------------------- *)
\* largest step count N a call is given (N ranges over 0..MaxN)
MaxN == 3
\* largest length of an explicit initial state X0
MaxDim == 2
\* number of states of the module-level random generator
RngPeriod == 3
\* number of calls of solve_sde the caller makes with the same arguments
MaxCalls == 2

(* --------------------------- float arithmetic ------------------------- *)
Abs(k) == IF k < 0 THEN -k ELSE k

Sgn(k) == IF k < 0 THEN -1 ELSE IF k = 0 THEN 0 ELSE 1

RECURSIVE GCD(_, _)
GCD(a, b) == IF b = 0 THEN a ELSE GCD(b, a % b)

Norm(num, den) ==
    LET g == GCD(Abs(num), den) IN <<num \div g, den \div g>>

Rat(k) == <<k, 1>>

NaN == <<0, 0>>

Inf == <<1, 0>>

IsNaN(x) == x = NaN

IsFinite(x) == x[2] # 0

FNeg(x) == <<-x[1], x[2]>>

FAdd(x, y) ==
    IF IsNaN(x) \/ IsNaN(y) THEN NaN
    ELSE IF ~IsFinite(x) /\ ~IsFinite(y) THEN (IF x = y THEN x ELSE NaN)
    ELSE IF ~IsFinite(x) THEN x
    ELSE IF ~IsFinite(y) THEN y
    ELSE Norm(x[1] * y[2] + y[1] * x[2], x[2] * y[2])

FSub(x, y) == FAdd(x, FNeg(y))

FMul(x, y) ==
    IF IsNaN(x) \/ IsNaN(y) THEN NaN
    ELSE IF ~IsFinite(x) \/ ~IsFinite(y)
         THEN (IF x[1] = 0 \/ y[1] = 0 THEN NaN ELSE <<Sgn(x[1]) * Sgn(y[1]), 0>>)
    ELSE Norm(x[1] * y[1], x[2] * y[2])

FDiv(x, y) ==
    IF IsNaN(x) \/ IsNaN(y) THEN NaN
    ELSE IF ~IsFinite(x) /\ ~IsFinite(y) THEN NaN
    ELSE IF ~IsFinite(x) THEN <<Sgn(x[1]) * (IF y[1] < 0 THEN -1 ELSE 1), 0>>
    ELSE IF ~IsFinite(y) THEN Rat(0)
    ELSE IF y[1] = 0 THEN (IF x[1] = 0 THEN NaN ELSE <<Sgn(x[1]), 0>>)
    ELSE Norm(x[1] * y[2] * Sgn(y[1]), x[2] * Abs(y[1]))

\* integer square root of a perfect square
ISqrt(k) == CHOOSE r \in 0..k : r * r = k

\* np.sqrt; the step sizes of the model are squares of rationals, so the
\* root of a finite non-negative argument is exact
FSqrt(x) ==
    IF IsNaN(x) THEN NaN
    ELSE IF x[1] < 0 THEN NaN
    ELSE IF ~IsFinite(x) THEN Inf
    ELSE <<ISqrt(x[1]), ISqrt(x[2])>>

\* np.sign of one number
FSign(x) == IF IsNaN(x) THEN NaN ELSE Rat(Sgn(x[1]))

\* x**2.0
FSquare(x) == FMul(x, x)

(* --------------------------- numpy arrays ----------------------------- *)
Scalar(x) == [nd |-> 0, v |-> <<x>>]

Vec(s) == [nd |-> 1, v |-> s]

\* the exception raised by an operation, carried through later operations
Err == [nd |-> -1, v |-> <<>>]

IsErr(a) == a.nd = -1

\* np.array(a).shape
ShapeOf(a) == IF a.nd = 0 THEN <<>> ELSE <<Len(a.v)>>

\* numpy's broadcasting rule for two operands of at most one dimension
Broadcastable(lx, ly) == lx = ly \/ lx = 1 \/ ly = 1

\* one arithmetic operation on two numbers
FOp(op, x, y) ==
    CASE op = "+" -> FAdd(x, y)
      [] op = "-" -> FSub(x, y)
      [] op = "*" -> FMul(x, y)
      [] op = "/" -> FDiv(x, y)

\* an element-wise operation on two arrays, with broadcasting
Bin(op, x, y) ==
    IF IsErr(x) \/ IsErr(y) THEN Err
    ELSE LET lx == Len(x.v)
             ly == Len(y.v)
             l  == IF lx = 1 THEN ly ELSE lx
         IN  IF ~Broadcastable(lx, ly) THEN Err
             ELSE [nd |-> IF x.nd > y.nd THEN x.nd ELSE y.nd,
                   v  |-> [i \in 1..l |->
                              FOp(op, x.v[IF lx = 1 THEN 1 ELSE i],
                                      y.v[IF ly = 1 THEN 1 ELSE i])]]

Add(x, y) == Bin("+", x, y)

Sub(x, y) == Bin("-", x, y)

Mul(x, y) == Bin("*", x, y)

Div(x, y) == Bin("/", x, y)

\* x**2.0, element by element
Square(x) ==
    IF IsErr(x) THEN Err
    ELSE [nd |-> x.nd, v |-> [i \in 1..Len(x.v) |-> FSquare(x.v[i])]]

\* np.sign(x), element by element
Sign(x) ==
    IF IsErr(x) THEN Err
    ELSE [nd |-> x.nd, v |-> [i \in 1..Len(x.v) |-> FSign(x.v[i])]]

\* np.ones((N, d)) in place of np.zeros: the buffer does not start at zero
ZerosAsOnes(N, d) == [r \in 1..N |-> [c \in 1..d |-> Rat(1)]]

\* np.zeros((N, d))
Zeros(N, d) == [r \in 1..N |-> [c \in 1..d |-> Rat(0)]]

\* np.arange(1, N+1)*dt + t0: the grid starts one step late
TimeGridFromOne(N, dt, t0) == [k \in 1..N |-> FAdd(FMul(Rat(k), dt), t0)]

\* np.arange(N)*dt + t0
TimeGrid(N, dt, t0) == [k \in 1..N |-> FAdd(FMul(Rat(k - 1), dt), t0)]

(* ------------------- the module's random generator -------------------- *)
\* the standard normal sample the generator yields in state s (line 13)
Sample(s) == Rat(((2 * s + 1) % 5) - 2)

\* what is passed to randn on line 83:  np.array(probe).shape or 1
\* (an empty tuple is false, so a scalar probe gives the integer 1;
\*  a non-empty tuple is true and is passed on as a tuple)
ShapeOr1(shape) ==
    IF shape = <<>> THEN [isInt |-> TRUE, dims |-> <<1>>]
    ELSE [isInt |-> FALSE, dims |-> shape]

\* randn(d0): d0 samples from the generator in state s.  randn takes the
\* dimensions as separate integers; given a tuple it raises TypeError.
Randn(arg, s) ==
    IF arg.isInt
    THEN Vec([i \in 1..arg.dims[1] |-> Sample((s + i - 1) % RngPeriod)])
    ELSE Err

\* number of samples a randn call takes from the generator
Drawn(arg) == IF arg.isInt THEN arg.dims[1] ELSE 0

(* ------------------ the caller's functions and inputs ----------------- *)
\* drift functions a caller passes as alfa ("None": the argument is absent)
AlfaKinds == {"None", "zero", "tmX", "vec3", "one1"}

\* diffusion functions a caller passes as beta
BetaKinds == {"None", "zero", "zeros", "Xt", "vec3"}

\* Wiener functions a caller passes as DW ("None": use the default)
DWKinds == {"None", "sgnY", "nan", "inf"}

\* f(X, t) for a drift or diffusion function f
Apply(f, X, t) ==
    IF IsErr(X) THEN Err
    ELSE CASE f = "zero"  -> Scalar(Rat(0))                  \* lambda X, t: 0
           [] f = "zeros" -> Vec([i \in 1..Len(X.v) |-> Rat(0)]) \* np.zeros(len(X))
           [] f = "tmX"   -> Sub(Scalar(t), X)               \* lambda X, t: t - X
           [] f = "Xt"    -> Add(X, Scalar(t))               \* lambda X, t: X + t
           [] f = "vec3"  -> Vec(<<Rat(1), Rat(2), Rat(3)>>) \* np.array([1., 2., 3.])
           [] f = "one1"  -> Vec(<<Rat(1)>>)                 \* np.array([1.])
           [] OTHER       -> Err                             \* None is not callable

\* DW(Y, dt) for a Wiener function given by the caller
ApplyDW(f, Yn, dt) ==
    CASE f = "sgnY" -> Mul(Sign(Yn), Scalar(FMul(Rat(2), FSqrt(dt))))
                                      \* lambda Y, dt: np.sign(Y)*2*np.sqrt(dt)
      [] f = "nan" -> Vec([i \in 1..Len(Yn.v) |-> NaN])
      [] f = "inf" -> Vec([i \in 1..Len(Yn.v) |-> Inf])
      [] OTHER     -> Err

\* explicit initial states: one of each length 1..MaxDim
InitialStates == {[i \in 1..d |-> Rat(IF i = 1 THEN 1 ELSE -2)] : d \in 1..MaxDim}

\* X0 as the caller passes it: absent, or a list of numbers
X0Args == {[given |-> FALSE, v |-> <<>>]} \cup
          {[given |-> TRUE, v |-> x] : x \in InitialStates}

StepSizes == {Rat(1), Rat(4)}

StartTimes == {Rat(0), Rat(1)}

Calls == [alfa : AlfaKinds, beta : BetaKinds, X0 : X0Args, dt : StepSizes,
          N : 0..MaxN, t0 : StartTimes, DW : DWKinds]

(* ------------------------------- state -------------------------------- *)
VARIABLES
    args,    \* the arguments of the call
    pc,      \* "call", "loop", "returned", "raised"
    X0,      \* the local X0 after line 83
    DW,      \* the local DW after line 84
    Y,       \* the trajectory buffer
    ti,      \* the time grid
    n,       \* the loop index
    ret,     \* what the call returned
    err,     \* the exception that left the call
    rng,     \* state of the module-level generator behind randn
    draws,   \* samples this call has taken from the generator
    log,     \* evaluations of alfa, beta and DW made by this call, in order
    out,     \* lines printed by this call
    callNo,  \* which call of the caller this is
    prev     \* outcome of the caller's previous call

vars == <<args, pc, X0, DW, Y, ti, n, ret, err, rng, draws, log, out, callNo, prev>>

NoRet == [kind |-> "nothing", ti |-> <<>>, Y |-> <<>>]

NoErr == [type |-> "", line |-> 0]

\* the locals and the outcome of a call that has not started
Fresh == [pc |-> "call", X0 |-> <<>>, DW |-> "None", Y |-> <<>>, ti |-> <<>>,
          n |-> 0, ret |-> NoRet, err |-> NoErr, draws |-> 0, log |-> <<>>,
          out |-> <<>>]

Init ==
    /\ args \in Calls
    /\ rng \in 0..(RngPeriod - 1)
    /\ callNo = 1
    /\ prev = [ret |-> NoRet, err |-> NoErr]
    /\ pc = Fresh.pc
    /\ X0 = Fresh.X0
    /\ DW = Fresh.DW
    /\ Y = Fresh.Y
    /\ ti = Fresh.ti
    /\ n = Fresh.n
    /\ ret = Fresh.ret
    /\ err = Fresh.err
    /\ draws = Fresh.draws
    /\ log = Fresh.log
    /\ out = Fresh.out

\* one evaluation of a caller's function: which, at what, and what it gave
Called(f, x, t, r) == [f |-> f, x |-> x, t |-> t, r |-> r]

(* ------------------------------ solve_sde ----------------------------- *)
\* "and" in place of "or": only a call missing both functions is refused
UndefinedBoth(alfa, beta) == alfa = "None" /\ beta = "None"

\* line 80: the test for a missing drift or diffusion
Undefined(alfa, beta) == alfa = "None" \/ beta = "None"

\* the caller's DW is ignored and the default always used
BindDWDefault(f) == "default"

\* line 84: the Wiener function the loop uses
BindDW(f) == IF f = "None" THEN "default" ELSE f

\* Dn, Wn = 1, dt
DnWnSwapped(dt) == <<Rat(1), dt>>

\* line 86: Dn, Wn = dt, 1
DnWn(dt) == <<dt, Rat(1)>>

\* range(N-2): the last step is not taken
LoopLimitShort(N) == N - 2

\* line 88: range(N-1)
LoopLimit(N) == N - 1

\* Y[n, :] = ... : the step overwrites the row it read
StepTargetSame(k) == k

\* line 92: the index of the row a step writes
StepTarget(k) == k + 1

\* the value DW(Y[n, :], dt) with the generator in state s; the default is
\* lambda Y, dt: randn(len(X0)) * np.sqrt(dt)
Wiener(f, x0, Yn, dt, s) ==
    IF f = "default"
    THEN Mul(Randn([isInt |-> TRUE, dims |-> <<Len(x0)>>], s), Scalar(FSqrt(dt)))
    ELSE ApplyDW(f, Yn, dt)

\* samples one evaluation of DW takes from the generator
WienerDrawn(f, x0) == IF f = "default" THEN Len(x0) ELSE 0

\* the update with the supporting value of beta taken at t + Dn, the time of
\* the next row, instead of t
RKSupportAtNextTime(beta, Yn, a, b, DWn, Dn, Wn, t) ==
    LET euler   == Add(Add(Yn, Mul(a, Scalar(Dn))), Mul(Mul(b, DWn), Scalar(Wn)))
        support == Add(Add(Yn, Mul(a, Scalar(Dn))), Mul(b, Scalar(FSqrt(Dn))))
        reached == ~IsErr(euler) /\ ~IsErr(support)
        bs      == IF reached THEN Apply(beta, support, FAdd(t, Dn)) ELSE Err
        corr    == Div(Mul(Mul(Scalar(<<1, 2>>), Sub(bs, b)),
                           Sub(Square(DWn), Scalar(Dn))),
                       Scalar(FSqrt(Dn)))
    IN  [value |-> Add(euler, corr), called |-> reached, at |-> support]

\* lines 92-94: the right-hand side of the update.  Python evaluates
\* Y[n,:] + a*Dn + b*DWn*Wn first, then calls beta at the supporting point,
\* so the second evaluation of beta happens only if no operation before it
\* raised.  The result: the value (or Err), whether beta was called a second
\* time, and at which point.
RK(beta, Yn, a, b, DWn, Dn, Wn, t) ==
    LET euler   == Add(Add(Yn, Mul(a, Scalar(Dn))), Mul(Mul(b, DWn), Scalar(Wn)))
        support == Add(Add(Yn, Mul(a, Scalar(Dn))), Mul(b, Scalar(FSqrt(Dn))))
        reached == ~IsErr(euler) /\ ~IsErr(support)
        bs      == IF reached THEN Apply(beta, support, t) ELSE Err
        corr    == Div(Mul(Mul(Scalar(<<1, 2>>), Sub(bs, b)),
                           Sub(Square(DWn), Scalar(Dn))),
                       Scalar(FSqrt(Dn)))
    IN  [value |-> Add(euler, corr), called |-> reached, at |-> support]

\* any value is stored, cut to the row's length
AssignableAny(l, d) == TRUE

\* a value of length l can be stored in a row of length d
Assignable(l, d) == l = d \/ l = 1

\* Y[r, :] = value  (r counted from 0)
StoreRow(M, r, value) ==
    [M EXCEPT ![r + 1] =
        [c \in 1..Len(M[r + 1]) |-> value.v[IF Len(value.v) = 1 THEN 1 ELSE c]]]

\* lines 80-86: from the call to the start of the loop
Enter ==
    /\ pc = "call"
    /\ IF Undefined(args.alfa, args.beta)
       THEN /\ out' = <<"Error: SDE not defined.">>
            /\ ret' = [kind |-> "None", ti |-> <<>>, Y |-> <<>>]
            /\ pc' = "returned"
            /\ UNCHANGED <<X0, DW, Y, ti, n, err, rng, draws, log>>
       ELSE LET probe == Apply(args.alfa, Scalar(Rat(0)), Rat(0))
                arg   == ShapeOr1(ShapeOf(probe))
                x0    == IF args.X0.given THEN Vec(args.X0.v) ELSE Randn(arg, rng)
                k     == IF args.X0.given THEN 0 ELSE Drawn(arg)
            IN  /\ log' = IF args.X0.given THEN <<>>
                          ELSE <<Called("alfa", Scalar(Rat(0)), Rat(0), probe)>>
                /\ rng' = (rng + k) % RngPeriod
                /\ draws' = k
                /\ UNCHANGED <<out, ret, n>>
                /\ IF IsErr(x0)
                   THEN /\ pc' = "raised"
                        /\ err' = [type |-> "TypeError", line |-> 83]
                        /\ UNCHANGED <<X0, DW, Y, ti>>
                   ELSE /\ X0' = x0.v
                        /\ DW' = BindDW(args.DW)
                        /\ ti' = TimeGrid(args.N, args.dt, args.t0)
                        /\ IF args.N = 0
                           THEN /\ Y' = Zeros(args.N, Len(x0.v))
                                /\ pc' = "raised"
                                /\ err' = [type |-> "IndexError", line |-> 86]
                           ELSE /\ Y' = StoreRow(Zeros(args.N, Len(x0.v)), 0, x0)
                                /\ pc' = "loop"
                                /\ err' = err
    /\ UNCHANGED <<args, callNo, prev>>

\* lines 88-94: one iteration of the loop
Step ==
    /\ pc = "loop"
    /\ n < LoopLimit(args.N)
    /\ LET t   == ti[n + 1]
           Yn  == Vec(Y[n + 1])
           a   == Apply(args.alfa, Yn, t)
           b   == Apply(args.beta, Yn, t)
           DWn == Wiener(DW, X0, Yn, args.dt, rng)
           k   == WienerDrawn(DW, X0)
           Dn  == DnWn(args.dt)[1]
           Wn  == DnWn(args.dt)[2]
           rk  == RK(args.beta, Yn, a, b, DWn, Dn, Wn, t)
           r   == StepTarget(n)
           bs  == Apply(args.beta, rk.at, t)
       IN  /\ log' = log \o <<Called("alfa", Yn, t, a), Called("beta", Yn, t, b),
                              Called("DW", Yn, args.dt, DWn)>>
                         \o (IF rk.called THEN <<Called("beta", rk.at, t, bs)>>
                             ELSE <<>>)
           /\ rng' = (rng + k) % RngPeriod
           /\ draws' = draws + k
           /\ IF IsErr(rk.value) \/ ~Assignable(Len(rk.value.v), Len(X0))
              THEN /\ pc' = "raised"
                   /\ err' = [type |-> "ValueError", line |-> 92]
                   /\ UNCHANGED <<Y, n>>
              ELSE IF r >= args.N
              THEN /\ pc' = "raised"
                   /\ err' = [type |-> "IndexError", line |-> 92]
                   /\ UNCHANGED <<Y, n>>
              ELSE /\ Y' = StoreRow(Y, r, rk.value)
                   /\ n' = n + 1
                   /\ UNCHANGED <<pc, err>>
    /\ UNCHANGED <<args, X0, DW, ti, ret, out, callNo, prev>>

\* line 95: return ti, Y
Return ==
    /\ pc = "loop"
    /\ n >= LoopLimit(args.N)
    /\ ret' = [kind |-> "pair", ti |-> ti, Y |-> Y]
    /\ pc' = "returned"
    /\ UNCHANGED <<args, X0, DW, Y, ti, n, err, rng, draws, log, out, callNo, prev>>

\* lines 102-106: the caller calls solve_sde again.  Here it passes the same
\* arguments; the module-level generator keeps whatever state the earlier
\* calls, and any other user of np.random, left it in.
Recall ==
    /\ pc \in {"returned", "raised"}
    /\ callNo < MaxCalls
    /\ callNo' = callNo + 1
    /\ prev' = [ret |-> ret, err |-> err]
    /\ rng' \in 0..(RngPeriod - 1)
    /\ UNCHANGED args
    /\ pc' = Fresh.pc
    /\ X0' = Fresh.X0
    /\ DW' = Fresh.DW
    /\ Y' = Fresh.Y
    /\ ti' = Fresh.ti
    /\ n' = Fresh.n
    /\ ret' = Fresh.ret
    /\ err' = Fresh.err
    /\ draws' = Fresh.draws
    /\ log' = Fresh.log
    /\ out' = Fresh.out

Next == Enter \/ Step \/ Return \/ Recall

Spec == Init /\ [][Next]_vars

(* ------------------------- vocabulary of the claims -------------------- *)
\* drift and diffusion are both present
Present == args.alfa # "None" /\ args.beta # "None"

\* the call returned the pair (ti, Y)
Succeeded == pc = "returned" /\ ret.kind = "pair"

\* t0 + k*dt
GridTime(k) == FAdd(args.t0, FMul(Rat(k), args.dt))

\* component i of a value that is broadcast over the state's components
At(x, i) == x.v[IF Len(x.v) = 1 THEN 1 ELSE i]

\* evaluations logged before the loop starts (the probe alfa(0, 0))
Off == IF args.X0.given THEN 0 ELSE 1

\* the e-th evaluation (e in 1..4) of the step that reads row k
Eval(k, e) == log[Off + 4 * k + e]

ZeroRow(row) == \A c \in 1..Len(row) : row[c] = Rat(0)

(* -------------------------------- C1 ---------------------------------- *)
\* C1: with drift and diffusion present, an explicit X0 of dimension d and
\* N >= 1, the call returns the pair; the trajectory has exactly N rows, each
\* of dimension d; row 0 equals X0 from the moment the loop starts until the
\* return, so no step overwrites it.
ThmC1 ==
    (Present /\ args.X0.given /\ args.N >= 1 /\ pc \in {"loop", "returned"}) =>
        /\ Y[1] = args.X0.v
        /\ Len(Y) = args.N
        /\ \A r \in 1..Len(Y) : Len(Y[r]) = Len(args.X0.v)
        /\ pc = "returned" => (ret.kind = "pair" /\ ret.Y = Y)

WitC1 ==
    /\ Succeeded
    /\ args.X0.given
    /\ args.N >= 3
    /\ n = args.N - 1
    /\ Len(args.X0.v) >= 2
    /\ ret.Y[1] = args.X0.v
    /\ ~ZeroRow(ret.Y[args.N])

(* -------------------------------- C2 ---------------------------------- *)
\* C2: the time grid has length N and its n-th entry is t0 + n*dt for every
\* n in 0..N-1, from the moment it is built (before the loop) through every
\* step to the return; the returned grid is that grid.
ThmC2 ==
    (pc \in {"loop", "returned"} /\ Present) =>
        /\ Len(ti) = args.N
        /\ \A k \in 0..(args.N - 1) : ti[k + 1] = GridTime(k)
        /\ pc = "returned" => ret.ti = ti

WitC2 ==
    /\ Succeeded
    /\ args.N >= 3
    /\ n = args.N - 1
    /\ args.t0 = Rat(1)
    /\ args.dt = Rat(4)
    /\ ret.ti[3] = Rat(9)

(* -------------------------------- C3 ---------------------------------- *)
\* C3: a call with the drift absent or the diffusion absent prints the error
\* and returns None: no trajectory and no time grid is built or returned, no
\* function of the caller is evaluated (not even the probe alfa(0, 0)) and
\* no random number is drawn.
ThmC3 ==
    (args.alfa = "None" \/ args.beta = "None") =>
        /\ pc \in {"call", "returned"}
        /\ log = <<>>
        /\ draws = 0
        /\ Y = <<>> /\ ti = <<>>
        /\ pc = "returned" =>
              /\ ret = [kind |-> "None", ti |-> <<>>, Y |-> <<>>]
              /\ out = <<"Error: SDE not defined.">>

WitC3 ==
    /\ pc = "returned"
    /\ args.alfa # "None"
    /\ args.beta = "None"
    /\ ~args.X0.given
    /\ args.DW = "None"
    /\ ret.kind = "None"

(* -------------------------------- C4 ---------------------------------- *)
\* the four evaluations of the step that read row k, and the row it wrote:
\* a, b and dW are taken at (Y_k, t_k), (Y_k, t_k) and (Y_k, dt); the second
\* value of beta is taken at the supporting point Y_k + a*dt + b*sqrt(dt) and
\* at the same time t_k; row k+1 is the update formula, component by
\* component
StepFormula(k) ==
    LET Yk  == Y[k + 1]
        tk  == GridTime(k)
        dt  == args.dt
        d   == Len(Yk)
        a   == Eval(k, 1).r
        b   == Eval(k, 2).r
        dW  == Eval(k, 3).r
        bs  == Eval(k, 4).r
        half == <<1, 2>>
    IN  /\ Eval(k, 1) = Called("alfa", Vec(Yk), tk, Apply(args.alfa, Vec(Yk), tk))
        /\ Eval(k, 2) = Called("beta", Vec(Yk), tk, Apply(args.beta, Vec(Yk), tk))
        /\ Eval(k, 3).f = "DW" /\ Eval(k, 3).x = Vec(Yk) /\ Eval(k, 3).t = dt
        /\ Eval(k, 4).f = "beta" /\ Eval(k, 4).t = tk
        /\ Len(Eval(k, 4).x.v) = d
        /\ \A i \in 1..d :
              Eval(k, 4).x.v[i] =
                 FAdd(FAdd(Yk[i], FMul(At(a, i), dt)), FMul(At(b, i), FSqrt(dt)))
        /\ bs = Apply(args.beta, Eval(k, 4).x, tk)
        /\ Len(Y[k + 2]) = d
        /\ \A i \in 1..d :
              Y[k + 2][i] =
                 FAdd(FAdd(FAdd(Yk[i], FMul(At(a, i), dt)),
                           FMul(At(b, i), At(dW, i))),
                      FDiv(FMul(FMul(half, FSub(At(bs, i), At(b, i))),
                                FSub(FSquare(At(dW, i)), dt)),
                           FSqrt(dt)))

\* C4: every step n that has run computed row n+1 from row n by
\* Y_{n+1} = Y_n + a*dt + b*dW + 0.5*(b_support - b)*(dW^2 - dt)/sqrt(dt),
\* element-wise, with a, b, dW and b_support evaluated as StepFormula says
\* (b_support at time t_n, not t_{n+1}).
ThmC4 == \A k \in 0..(n - 1) : StepFormula(k)

WitC4 ==
    /\ Succeeded
    /\ n >= 2
    /\ args.alfa = "tmX"
    /\ args.beta = "Xt"
    /\ args.DW = "None"
    /\ args.t0 = Rat(1)
    /\ Len(X0) >= 2
    /\ Eval(1, 4).r # Eval(1, 2).r
    /\ \E i \in 1..Len(X0) : FSquare(At(Eval(1, 3).r, i)) # args.dt

(* -------------------------------- C5 ---------------------------------- *)
\* row k of the explicit Euler integrator Y_{k+1} = Y_k + alfa(Y_k, t_k)*dt
\* started at X0
RECURSIVE EulerRow(_)
EulerRow(k) ==
    IF k = 0 THEN Vec(X0)
    ELSE LET p == EulerRow(k - 1)
         IN  Add(p, Mul(Apply(args.alfa, p, GridTime(k - 1)), Scalar(args.dt)))

MatchesEuler == \A k \in 0..(args.N - 1) : Vec(ret.Y[k + 1]) = EulerRow(k)

ZeroDiffusion == args.beta \in {"zero", "zeros"}

\* every increment the Wiener function returned was a finite number
FiniteIncrements ==
    \A e \in 1..Len(log) :
        log[e].f = "DW" => \A i \in 1..Len(log[e].r.v) : IsFinite(log[e].r.v[i])

\* C5 as stated: with a diffusion that is zero everywhere, the returned
\* trajectory equals the explicit Euler trajectory row for row, whatever
\* increments the Wiener function returns.
OrigC5 == (Succeeded /\ ZeroDiffusion) => MatchesEuler

\* C5 amended: the same, for Wiener functions whose increments are all
\* finite numbers.
ThmC5 == (Succeeded /\ ZeroDiffusion /\ FiniteIncrements) => MatchesEuler

WitC5 ==
    /\ Succeeded
    /\ ZeroDiffusion
    /\ FiniteIncrements
    /\ n >= 2
    /\ args.alfa = "tmX"
    /\ args.DW = "None"
    /\ Eval(1, 3).r.v[1] # Rat(0)
    /\ ret.Y[3] # ret.Y[2]

(* -------------------------------- C9 ---------------------------------- *)
\* how many of the logged evaluations are of f
Count(f) == Cardinality({e \in 1..Len(log) : log[e].f = f})

\* C9: a call with explicit X0 and N >= 1 that returns has run exactly N-1
\* steps (none when N = 1, and then the single row is X0); step k evaluated,
\* in this order, alfa at (Y_k, t_k), beta at (Y_k, t_k), DW at (Y_k, dt) and
\* beta again at the supporting point; in all alfa was evaluated N-1 times,
\* beta 2*(N-1) times and DW N-1 times.
ThmC9 ==
    (Succeeded /\ args.X0.given /\ args.N >= 1) =>
        /\ n = args.N - 1
        /\ Len(log) = 4 * (args.N - 1)
        /\ \A k \in 0..(args.N - 2) :
              /\ log[4 * k + 1].f = "alfa"
              /\ log[4 * k + 1].x = Vec(ret.Y[k + 1])
              /\ log[4 * k + 1].t = ret.ti[k + 1]
              /\ log[4 * k + 2].f = "beta"
              /\ log[4 * k + 2].x = Vec(ret.Y[k + 1])
              /\ log[4 * k + 2].t = ret.ti[k + 1]
              /\ log[4 * k + 3].f = "DW"
              /\ log[4 * k + 3].x = Vec(ret.Y[k + 1])
              /\ log[4 * k + 3].t = args.dt
              /\ log[4 * k + 4].f = "beta"
              /\ log[4 * k + 4].x =
                    Add(Add(Vec(ret.Y[k + 1]),
                            Mul(log[4 * k + 1].r, Scalar(args.dt))),
                        Mul(log[4 * k + 2].r, Scalar(FSqrt(args.dt))))
        /\ Count("alfa") = args.N - 1
        /\ Count("beta") = 2 * (args.N - 1)
        /\ Count("DW") = args.N - 1
        /\ args.N = 1 => ret.Y = <<args.X0.v>>

WitC9 ==
    /\ Succeeded
    /\ args.X0.given
    /\ args.N >= 3
    /\ Count("beta") = 4
    /\ log[8].x # log[6].x

(* -------------------------------- C10 --------------------------------- *)
\* at the start of step n the rows after row n are still all zero
ZeroAhead == pc = "loop" => \A r \in (n + 2)..Len(Y) : ZeroRow(Y[r])

\* a transition taken inside the loop changes no row but row n+1, leaves the
\* time grid alone, and moves the index by at most one, upwards
WritesOneRow ==
    pc = "loop" =>
        /\ ti' = ti
        /\ Len(Y') = Len(Y)
        /\ \A r \in 1..Len(Y) : r # n + 2 => Y'[r] = Y[r]
        /\ n' \in {n, n + 1}
        /\ Y' # Y => n' = n + 1

\* C10: step n writes only row n+1 and leaves every other row and the time
\* grid unchanged; at the start of step n rows n+1..N-1 are still zero; so
\* each row 1..N-1 is written once, in increasing order, and never again.
ThmC10 == []ZeroAhead /\ [][WritesOneRow]_vars

WitC10 ==
    /\ pc = "loop"
    /\ n = 2
    /\ args.N >= 3
    /\ ~ZeroRow(Y[2])
    /\ ~ZeroRow(Y[3])
    /\ Y[2] # Y[3]

(* -------------------------------- C6 ---------------------------------- *)
\* C6: with an explicit X0 and a Wiener function given by the caller (a
\* deterministic function of its arguments), a second call with the same
\* arguments ends as the first did: the same time grid and trajectory (or
\* the same exception), whatever state the module-level generator is in.
ThmC6 ==
    (callNo >= 2 /\ pc \in {"returned", "raised"} /\ args.X0.given
        /\ args.DW # "None") =>
        /\ ret = prev.ret
        /\ err = prev.err

WitC6 ==
    /\ callNo = 2
    /\ Succeeded
    /\ args.X0.given
    /\ args.DW = "sgnY"
    /\ args.beta = "Xt"
    /\ args.N >= 3
    /\ Len(X0) >= 2
    /\ ret = prev.ret
    /\ ~ZeroRow(ret.Y[3])

(* -------------------------------- C7 ---------------------------------- *)
\* the call got as far as building X0, so d = len(X0) is defined
Built == pc \in {"loop", "returned"} \/ (pc = "raised" /\ err.line > 83)

\* a result whose length disagrees with d, a length-1 vector or a scalar
\* with d > 1 included
Disagrees(r, d) ==
    /\ ~IsErr(r)
    /\ \/ r.nd = 1 /\ Len(r.v) # d
       \/ r.nd = 0 /\ d > 1

\* a result numpy cannot broadcast to length d
Incompatible(r, d) == ~IsErr(r) /\ r.nd = 1 /\ Len(r.v) \notin {1, d}

\* the step failed and the error left the call: nothing was returned
StepFailed ==
    /\ pc = "raised"
    /\ err = [type |-> "ValueError", line |-> 92]
    /\ ret = NoRet

\* C7 as stated: once drift or diffusion has returned a value whose length
\* disagrees with d (a length-1 vector or a scalar with d > 1 included), the
\* step update fails and the call returns nothing.
OrigC7 ==
    (Built /\ \E e \in 1..Len(log) :
                 log[e].f \in {"alfa", "beta"} /\ Disagrees(log[e].r, Len(X0)))
        => StepFailed

\* C7 amended: once drift or diffusion has returned a vector whose length
\* is neither d nor 1, the step update fails with a ValueError and the call
\* returns nothing; a scalar or a length-1 vector is broadcast over the d
\* components instead, and no ValueError arises unless some function
\* returned a vector of a length other than d and 1.
ThmC7 ==
    Built =>
        /\ (\E e \in 1..Len(log) :
               log[e].f \in {"alfa", "beta"} /\ Incompatible(log[e].r, Len(X0)))
           => StepFailed
        /\ (pc = "raised" /\ err.type = "ValueError")
           => \E e \in 1..Len(log) : Incompatible(log[e].r, Len(X0))

WitC7 ==
    /\ StepFailed
    /\ args.X0.given
    /\ Len(X0) = 2
    /\ args.alfa = "tmX"
    /\ args.beta = "vec3"
    /\ Incompatible(log[2].r, Len(X0))
    /\ Len(log) = 3

\* the broadcast half of the amended claim happens: a scalar drift with d = 2
WitC7Broadcast ==
    /\ Succeeded
    /\ Len(X0) = 2
    /\ args.alfa = "zero"
    /\ args.beta = "Xt"
    /\ n >= 1

(* -------------------------------- C8 ---------------------------------- *)
\* the probe alfa(0, 0) and the dimension the claim infers from it
Probe == Apply(args.alfa, Scalar(Rat(0)), Rat(0))

ProbeDim == IF Probe.nd = 0 THEN 1 ELSE Len(Probe.v)

\* C8: with X0 absent and drift and diffusion present, alfa is evaluated
\* once at (0, 0) before the loop, X0 is one random vector whose length is
\* the length of that value (1 for a scalar), building it raises nothing,
\* and a call that returns has N rows of that dimension.
ClaimC8 ==
    (Present /\ ~args.X0.given /\ args.N >= 1 /\ pc # "call") =>
        /\ Len(log) >= 1
        /\ log[1] = Called("alfa", Scalar(Rat(0)), Rat(0), Probe)
        /\ (pc = "loop" /\ n = 0) => (Len(log) = 1 /\ draws = ProbeDim)
        /\ pc = "raised" => err.line = 92
        /\ Len(X0) = ProbeDim
        /\ Succeeded =>
              /\ Len(ret.Y) = args.N
              /\ \A r \in 1..args.N : Len(ret.Y[r]) = ProbeDim

\* the part of C8 the code does satisfy: a scalar probe gives dimension 1
ScalarProbeC8 == Probe.nd = 0 => ClaimC8

=============================================================================
